---- MODULE Spec2Model ----
\* Model of the GC9D01 display driver (src/src/lib.rs): the command encoder,
\* the initialization sequencer, the addressing engine and the pixel streamer,
\* run against a bus, two control lines and a timer that may fail at any call.
EXTENDS Integers, Sequences, FiniteSets, TLC

VARIABLES
    config,          \* Config given to GC9D01::new
    buffer,          \* the transfer buffer, a sequence of bytes
    overflowChecks,  \* whether the build panics on integer overflow (debug) or wraps (release)
    dc,              \* level of the data/command select line
    rst,             \* level of the reset line
    stack,           \* call stack of the driver: one frame per active function
    log              \* what the current public call has done to the pins, the bus and the timer

vars == <<config, buffer, overflowChecks, dc, rst, stack, log>>

\* ---------------------------------------------------------------- bounds

\* Longest pixel sequence handed to write_area.
MaxData == 3

\* ------------------------------------------------------------- constants

BUF_SIZE == 24 * 48 * 2
MAX_DATA_LEN == BUF_SIZE \div 2

U16 == 65536

\* Instruction opcodes (enum Instruction), those the driver issues.
SleepOut == \h11
DisplayOn == \h29
ColumnAddressSet == \h2A
RowAddressSet == \h2B
MemoryWrite == \h2C
MemoryAccessControl == \h36
PixelFormatSet == \h3A
BlankingPorchControl == \hB5
DisplayFunctionControl == \hB6
DualSingleGateSelect == \hBF
PowerControl2 == \hC3
PowerControl3 == \hC4
InterRegisterEnable2 == \hEF
SetGamma1 == \hF0
SetGamma2 == \hF1
SetGamma3 == \hF2
SetGamma4 == \hF3
InterRegisterEnable1 == \hFE
Cmd80 == \h80
Cmd81 == \h81
Cmd82 == \h82
Cmd83 == \h83
Cmd84 == \h84
Cmd85 == \h85
Cmd86 == \h86
Cmd87 == \h87
Cmd88 == \h88
Cmd89 == \h89
Cmd8A == \h8A
Cmd8B == \h8B
Cmd8C == \h8C
Cmd8D == \h8D
Cmd8E == \h8E
Cmd8F == \h8F
Cmd7E == \h7E
Cmd74 == \h74
Cmd98 == \h98
Cmd99 == \h99
Cmd60 == \h60
Cmd63 == \h63
Cmd64 == \h64
Cmd66 == \h66
Cmd6A == \h6A
Cmd68 == \h68
Cmd6C == \h6C
Cmd6E == \h6E
CmdA9 == \hA9
CmdA8 == \hA8
CmdA7 == \hA7
CmdAD == \hAD
CmdAF == \hAF
CmdAC == \hAC
CmdA3 == \hA3
CmdCB == \hCB
CmdCD == \hCD
CmdC2 == \hC2
CmdC5 == \hC5
CmdC6 == \hC6
CmdC7 == \hC7
CmdC8 == \hC8
CmdF9 == \hF9
Cmd9B == \h9B
Cmd93 == \h93
Cmd70 == \h70
Cmd71 == \h71
Cmd91 == \h91

OrientationByte(o) ==
    CASE o = "Portrait" -> \h00
      [] o = "Landscape" -> \h60
      [] o = "PortraitSwapped" -> \h80
      [] o = "LandscapeSwapped" -> \hA0

\* ------------------------------------------------------------ the errors

BusErrs == {"b1", "b2"}
PinErrs == {"p1"}
BusOutcomes == {"ok"} \cup BusErrs
PinOutcomes == {"ok"} \cup PinErrs

Ok == [tag |-> "Ok", e |-> "-"]
ErrBus(e) == [tag |-> "Bus", e |-> e]
ErrPin(e) == [tag |-> "Pin", e |-> e]
NoRet == [tag |-> "none", e |-> "-"]

\* ------------------------------------------------------------ the events

PinEv(pin, level, out) ==
    [k |-> "pin", pin |-> pin, level |-> level, ms |-> 0, bytes |-> <<>>, dc |-> dc, res |-> out]
BusEv(bytes, out) ==
    [k |-> "bus", pin |-> "-", level |-> "-", ms |-> 0, bytes |-> bytes, dc |-> dc, res |-> out]
DelayEv(ms) ==
    [k |-> "delay", pin |-> "-", level |-> "-", ms |-> ms, bytes |-> <<>>, dc |-> dc, res |-> "ok"]

\* ------------------------------------------------------- the init program

ResetItem == [op |-> "reset", instr |-> 0, params |-> <<>>, ms |-> 0]
Cmd(instr, params) == [op |-> "cmd", instr |-> instr, params |-> params, ms |-> 0]
Delay(ms) == [op |-> "delay", instr |-> 0, params |-> <<>>, ms |-> ms]

\* init opens with the hardware reset
InitHardwareReset ==
    <<
       ResetItem
    >>

\* the two inter-register enables and the writes unlocking 80h..8Fh
InitEnable ==
    <<
       Cmd(InterRegisterEnable1, <<>>),
       Cmd(InterRegisterEnable2, <<>>),
       Cmd(Cmd80, <<\hFF>>),
       Cmd(Cmd81, <<\hFF>>),
       Cmd(Cmd82, <<\hFF>>),
       Cmd(Cmd83, <<\hFF>>),
       Cmd(Cmd84, <<\hFF>>),
       Cmd(Cmd85, <<\hFF>>),
       Cmd(Cmd86, <<\hFF>>),
       Cmd(Cmd87, <<\hFF>>),
       Cmd(Cmd88, <<\hFF>>),
       Cmd(Cmd89, <<\hFF>>),
       Cmd(Cmd8A, <<\hFF>>),
       Cmd(Cmd8B, <<\hFF>>),
       Cmd(Cmd8C, <<\hFF>>),
       Cmd(Cmd8D, <<\hFF>>),
       Cmd(Cmd8E, <<\hFF>>),
       Cmd(Cmd8F, <<\hFF>>)
    >>

\* pixel format, timing, voltages and gamma
InitTuning ==
    <<
       Cmd(PixelFormatSet, <<\h05>>),
       Cmd(Cmd7E, <<\h7A>>),
       Cmd(Cmd74, <<\h02, \h0E, \h00, \h00, \h28, \h00, \h00>>),
       Cmd(Cmd98, <<\h3E>>),
       Cmd(Cmd99, <<\h3E>>),
       Cmd(BlankingPorchControl, <<\h0E, \h0E>>),
       Cmd(Cmd60, <<\h38, \h09, \h6D, \h67>>),
       Cmd(Cmd63, <<\h38, \hAD, \h6D, \h67, \h05>>),
       Cmd(Cmd64, <<\h38, \h0B, \h70, \hAB, \h6D, \h67>>),
       Cmd(Cmd66, <<\h38, \h0F, \h70, \hAF, \h6D, \h67>>),
       Cmd(Cmd6A, <<\h00, \h00>>),
       Cmd(Cmd68, <<\h3B, \h08, \h04, \h00, \h04, \h64, \h67>>),
       Cmd(Cmd6C, <<\h22, \h02, \h22, \h02, \h22, \h22, \h50>>),
       Cmd(Cmd6E, <<
           \h00, \h00, \h00, \h00, \h07, \h01, \h13, \h11, \h0B, \h09, \h16, \h15, \h1D, \h1E,
           \h00, \h00, \h00, \h00, \h1E, \h1D, \h15, \h16, \h0A, \h0C, \h12, \h14, \h02, \h08,
           \h00, \h00, \h00, \h00
       >>),
       Cmd(CmdA9, <<\h1B>>),
       Cmd(CmdA8, <<\h6B>>),
       Cmd(CmdA8, <<\h6D>>),
       Cmd(CmdA7, <<\h40>>),
       Cmd(CmdAD, <<\h47>>),
       Cmd(CmdAF, <<\h73>>),
       Cmd(CmdAF, <<\h73>>),
       Cmd(CmdAC, <<\h44>>),
       Cmd(CmdA3, <<\h6C>>),
       Cmd(CmdCB, <<\h00>>),
       Cmd(CmdCD, <<\h22>>),
       Cmd(CmdC2, <<\h10>>),
       Cmd(CmdC5, <<\h00>>),
       Cmd(CmdC6, <<\h0E>>),
       Cmd(CmdC7, <<\h1F>>),
       Cmd(CmdC8, <<\h0E>>),
       Cmd(DualSingleGateSelect, <<\h00>>),
       Cmd(CmdF9, <<\h20>>),
       Cmd(Cmd9B, <<\h3B>>),
       Cmd(Cmd93, <<\h33, \h7F, \h00>>),
       Cmd(Cmd70, <<\h0E, \h0F, \h03, \h0E, \h0F, \h03>>),
       Cmd(Cmd71, <<\h0E, \h16, \h03>>),
       Cmd(Cmd91, <<\h0E, \h09>>),
       Cmd(PowerControl2, <<\h2C>>),
       Cmd(PowerControl3, <<\h1A>>),
       Cmd(SetGamma1, <<\h51, \h13, \h0C, \h06, \h00, \h2F>>),
       Cmd(SetGamma3, <<\h51, \h13, \h0C, \h06, \h00, \h33>>),
       Cmd(SetGamma2, <<\h3C, \h94, \h4F, \h33, \h34, \hCF>>),
       Cmd(SetGamma4, <<\h4D, \h94, \h4F, \h33, \h34, \hCF>>)
    >>

\* InitOrientation with the Landscape byte whatever the configuration says.
InitOrientationLandscapeOnly(cfg) ==
    <<
       Cmd(MemoryAccessControl, <<\h60>>)
    >>

\* memory access control from the configured orientation
InitOrientation(cfg) ==
    <<
       Cmd(MemoryAccessControl, <<OrientationByte(cfg.orientation)>>)
    >>

\* display function control
InitDisplayFunction ==
    <<
       Cmd(DisplayFunctionControl, <<\h0A, \h80, \h27, \h00>>)
    >>

\* InitWake without the settling delay between sleep-out and display-on.
InitWakeWithoutDelay ==
    <<
       Cmd(SleepOut, <<>>),
       Cmd(DisplayOn, <<>>)
    >>

\* sleep-out, the settling delay and display-on
InitWake ==
    <<
       Cmd(SleepOut, <<>>),
       Delay(200),
       Cmd(DisplayOn, <<>>)
    >>

InitProgram(cfg) ==
    InitHardwareReset \o InitEnable \o InitTuning \o InitOrientation(cfg)
        \o InitDisplayFunction \o InitWake

\* ------------------------------------------------------------ the inputs

\* Two 16-bit colors whose high and low bytes all differ.
Colors == <<\hF800, \h1234>>

Pattern(n) == [i \in 1..n |-> Colors[((i - 1) % 2) + 1]]
DataSeqs == {Pattern(n) : n \in 0..MaxData}

\* Orientation, width, height, dx, dy, the buffer's capacity and the build.
Setup(o, w, h, dx, dy, cap, chk) ==
    [cfg |-> [rgb |-> FALSE, inverted |-> FALSE, orientation |-> o,
              height |-> h, width |-> w, dx |-> dx, dy |-> dy],
     cap |-> cap, chk |-> chk]

Setups ==
    { Setup("Portrait", 1, 1, 1, 0, 4, TRUE),
      Setup("Landscape", 24, 49, 5, 3, BUF_SIZE, FALSE),
      Setup("PortraitSwapped", 3, 1, 0, 0, 4, FALSE),
      Setup("LandscapeSwapped", 2, 1, 0, 1, 2, TRUE) }

\* Rectangles <<x, y, width, height>> handed to write_area.
Areas == { <<1, 2, 2, 1>>, <<0, 0, 0, 0>> }

\* Windows <<sx, sy, ex, ey>> handed to set_address_window.
Windows == { <<1, 2, 3, 4>>, <<65535, 300, 65535, 65535>> }

\* ------------------------------------------------------------- the stack

Top == stack[Len(stack)]
Callee == stack[Len(stack)]
Caller == stack[Len(stack) - 1]

Frame(fn, pc, args, loc) ==
    [fn |-> fn, pc |-> pc, args |-> args, loc |-> loc, base |-> Len(log), ret |-> NoRet]

Running(fn, pc) == stack # <<>> /\ Top.fn = fn /\ Top.pc = pc
Returned(fn) == Len(stack) >= 2 /\ Callee.pc = "done" /\ Caller.fn = fn

SetTop(f) == [stack EXCEPT ![Len(stack)] = f]
Push(f) == Append(stack, f)
ReturnTo(f) == Append(SubSeq(stack, 1, Len(stack) - 2), f)

Done(f, r) == [f EXCEPT !.pc = "done", !.ret = r]
Panic(f) == [f EXCEPT !.pc = "panic"]

\* The ? operator: an Err returns from the caller, an Ok goes on at nextpc.
Try(f, r, nextpc) == IF r.tag = "Ok" THEN [f EXCEPT !.pc = nextpc] ELSE Done(f, r)

NoArgs == [none |-> 0]

\* No public call is in progress: the caller may start one.
Idle == stack = <<>>

Init ==
    /\ \E s \in Setups :
          /\ config = s.cfg
          /\ buffer = [i \in 1..s.cap |-> 0]
          /\ overflowChecks = s.chk
    /\ dc = "unset"
    /\ rst = "unset"
    /\ stack = <<>>
    /\ log = <<>>

\* ----------------------------------------------------------------- reset

ResetCall ==
    /\ Idle
    /\ stack' = <<[Frame("reset", "set_low", NoArgs, NoArgs) EXCEPT !.base = 0]>>
    /\ log' = <<>>
    /\ UNCHANGED <<config, buffer, overflowChecks, dc, rst>>

ResetSetLow ==
    /\ Running("reset", "set_low")
    /\ \E out \in PinOutcomes :
          /\ log' = Append(log, PinEv("rst", "low", out))
          /\ rst' = IF out = "ok" THEN "low" ELSE rst
          /\ stack' = SetTop(IF out = "ok" THEN [Top EXCEPT !.pc = "delay_10"]
                                           ELSE Done(Top, ErrPin(out)))
    /\ UNCHANGED <<config, buffer, overflowChecks, dc>>

ResetDelay10 ==
    /\ Running("reset", "delay_10")
    /\ log' = Append(log, DelayEv(10))
    /\ stack' = SetTop([Top EXCEPT !.pc = "set_high"])
    /\ UNCHANGED <<config, buffer, overflowChecks, dc, rst>>

ResetSetHigh ==
    /\ Running("reset", "set_high")
    /\ \E out \in PinOutcomes :
          /\ log' = Append(log, PinEv("rst", "high", out))
          /\ rst' = IF out = "ok" THEN "high" ELSE rst
          /\ stack' = SetTop(IF out = "ok" THEN [Top EXCEPT !.pc = "delay_120"]
                                           ELSE Done(Top, ErrPin(out)))
    /\ UNCHANGED <<config, buffer, overflowChecks, dc>>

ResetDelay120 ==
    /\ Running("reset", "delay_120")
    /\ log' = Append(log, DelayEv(120))
    /\ stack' = SetTop(Done(Top, Ok))
    /\ UNCHANGED <<config, buffer, overflowChecks, dc, rst>>

\* --------------------------------------------------------- write_command

WcFrame(instr, params) ==
    Frame("write_command", "dc_low", [instruction |-> instr, params |-> params], NoArgs)

WcDcLow ==
    /\ Running("write_command", "dc_low")
    /\ \E out \in PinOutcomes :
          /\ log' = Append(log, PinEv("dc", "low", out))
          /\ dc' = IF out = "ok" THEN "low" ELSE dc
          /\ stack' = SetTop(IF out = "ok" THEN [Top EXCEPT !.pc = "cmd"]
                                           ELSE Done(Top, ErrPin(out)))
    /\ UNCHANGED <<config, buffer, overflowChecks, rst>>

\* WcCmdWrite going on to the parameter phase after a failed opcode write.
WcCmdWriteGoesOn ==
    /\ Running("write_command", "cmd")
    /\ \E out \in BusOutcomes :
          /\ log' = Append(log, BusEv(<<Top.args.instruction>>, out))
          /\ stack' = SetTop(IF Top.args.params # <<>>
                                THEN [Top EXCEPT !.pc = "dc_high"]
                                ELSE Done(Top, IF out = "ok" THEN Ok ELSE ErrBus(out)))
    /\ UNCHANGED <<config, buffer, overflowChecks, dc, rst>>

\* WcCmdWrite entering the parameter phase without looking at params.
WcCmdWriteAlwaysParams ==
    /\ Running("write_command", "cmd")
    /\ \E out \in BusOutcomes :
          /\ log' = Append(log, BusEv(<<Top.args.instruction>>, out))
          /\ stack' = SetTop(IF out = "ok"
                                THEN [Top EXCEPT !.pc = "dc_high"]
                                ELSE Done(Top, ErrBus(out)))
    /\ UNCHANGED <<config, buffer, overflowChecks, dc, rst>>

WcCmdWrite ==
    /\ Running("write_command", "cmd")
    /\ \E out \in BusOutcomes :
          /\ log' = Append(log, BusEv(<<Top.args.instruction>>, out))
          /\ stack' = SetTop(IF out = "ok" /\ Top.args.params # <<>>
                                THEN [Top EXCEPT !.pc = "dc_high"]
                                ELSE Done(Top, IF out = "ok" THEN Ok ELSE ErrBus(out)))
    /\ UNCHANGED <<config, buffer, overflowChecks, dc, rst>>

WcDcHigh ==
    /\ Running("write_command", "dc_high")
    /\ \E out \in PinOutcomes :
          /\ log' = Append(log, PinEv("dc", "high", out))
          /\ dc' = IF out = "ok" THEN "high" ELSE dc
          /\ stack' = SetTop(IF out = "ok" THEN [Top EXCEPT !.pc = "param"]
                                           ELSE Done(Top, ErrPin(out)))
    /\ UNCHANGED <<config, buffer, overflowChecks, rst>>

WcParamWrite ==
    /\ Running("write_command", "param")
    /\ \E out \in BusOutcomes :
          /\ log' = Append(log, BusEv(Top.args.params, out))
          /\ stack' = SetTop(Done(Top, IF out = "ok" THEN Ok ELSE ErrBus(out)))
    /\ UNCHANGED <<config, buffer, overflowChecks, dc, rst>>

\* ------------------------------------------------------------------ init

InitCall ==
    /\ Idle
    /\ stack' = <<[Frame("init", "item", NoArgs, [i |-> 1]) EXCEPT !.base = 0]>>
    /\ log' = <<>>
    /\ UNCHANGED <<config, buffer, overflowChecks, dc, rst>>

InitItem == InitProgram(config)[Top.loc.i]

\* Where init goes on after item i: the next item, or Ok(()) after the last.
InitNext(f) ==
    IF f.loc.i = Len(InitProgram(config)) THEN Done(f, Ok) ELSE [f EXCEPT !.loc.i = @ + 1]

InitReset ==
    /\ Running("init", "item")
    /\ InitItem.op = "reset"
    /\ stack' = Push(Frame("reset", "set_low", NoArgs, NoArgs))
    /\ UNCHANGED <<config, buffer, overflowChecks, dc, rst, log>>

InitWriteCommand ==
    /\ Running("init", "item")
    /\ InitItem.op = "cmd"
    /\ stack' = Push(WcFrame(InitItem.instr, InitItem.params))
    /\ UNCHANGED <<config, buffer, overflowChecks, dc, rst, log>>

InitDelay ==
    /\ Running("init", "item")
    /\ InitItem.op = "delay"
    /\ log' = Append(log, DelayEv(InitItem.ms))
    /\ stack' = SetTop(InitNext(Top))
    /\ UNCHANGED <<config, buffer, overflowChecks, dc, rst>>

\* InitReturn without the ? on the callee's result.
InitReturnIgnoringErrors ==
    /\ Returned("init")
    /\ stack' = ReturnTo(InitNext(Caller))
    /\ UNCHANGED <<config, buffer, overflowChecks, dc, rst, log>>

\* self.reset().await? and self.write_command(..).await?
InitReturn ==
    /\ Returned("init")
    /\ stack' = ReturnTo(IF Callee.ret.tag = "Ok" THEN InitNext(Caller)
                                                  ELSE Done(Caller, Callee.ret))
    /\ UNCHANGED <<config, buffer, overflowChecks, dc, rst, log>>

\* ---------------------------------------------------- set_address_window

\* u16 addition: a panic in a build with overflow checks, a wrap otherwise.
Overflows(a, b) == a + b >= U16
Add16(a, b) == (a + b) % U16
Underflows(a, b) == a < b
Sub16(a, b) == (a - b) % U16

\* Hi taking the low byte.
HiTakesLowByte(v) == v % 256

Hi(v) == (v \div 256) % 256
Lo(v) == v % 256

SawFrame(sx, sy, ex, ey) ==
    Frame("set_address_window", "row", [sx |-> sx, sy |-> sy, ex |-> ex, ey |-> ey], NoArgs)

SetAddressWindowCall ==
    /\ Idle
    /\ \E w \in Windows :
          stack' = <<[SawFrame(w[1], w[2], w[3], w[4]) EXCEPT !.base = 0]>>
    /\ log' = <<>>
    /\ UNCHANGED <<config, buffer, overflowChecks, dc, rst>>

\* SawRow with the two offsets exchanged: dy added to the x pair, dx to the y pair.
SawRowOffsetsExchanged ==
    /\ Running("set_address_window", "row")
    /\ LET a == Top.args
           over == \/ Overflows(a.sx, config.dy) \/ Overflows(a.ex, config.dy)
                   \/ Overflows(a.sy, config.dx) \/ Overflows(a.ey, config.dx)
           final_sx == Add16(a.sx, config.dy)
           final_ex == Add16(a.ex, config.dy)
           final_sy == Add16(a.sy, config.dx)
           final_ey == Add16(a.ey, config.dx)
           f == [Top EXCEPT !.loc = [final_sy |-> final_sy, final_ey |-> final_ey]]
       IN  stack' = IF over /\ overflowChecks
                       THEN SetTop(Panic(Top))
                       ELSE Append(SetTop(f),
                                   WcFrame(RowAddressSet,
                                           <<Hi(final_sx), Lo(final_sx),
                                             Hi(final_ex), Lo(final_ex)>>))
    /\ UNCHANGED <<config, buffer, overflowChecks, dc, rst, log>>

SawRow ==
    /\ Running("set_address_window", "row")
    /\ LET a == Top.args
           over == \/ Overflows(a.sx, config.dx) \/ Overflows(a.ex, config.dx)
                   \/ Overflows(a.sy, config.dy) \/ Overflows(a.ey, config.dy)
           final_sx == Add16(a.sx, config.dx)
           final_ex == Add16(a.ex, config.dx)
           final_sy == Add16(a.sy, config.dy)
           final_ey == Add16(a.ey, config.dy)
           f == [Top EXCEPT !.loc = [final_sy |-> final_sy, final_ey |-> final_ey]]
       IN  stack' = IF over /\ overflowChecks
                       THEN SetTop(Panic(Top))
                       ELSE Append(SetTop(f),
                                   WcFrame(RowAddressSet,
                                           <<Hi(final_sx), Lo(final_sx),
                                             Hi(final_ex), Lo(final_ex)>>))
    /\ UNCHANGED <<config, buffer, overflowChecks, dc, rst, log>>

\* write_command(RowAddressSet, ..).await?
SawRowReturn ==
    /\ Returned("set_address_window") /\ Caller.pc = "row"
    /\ stack' = ReturnTo(Try(Caller, Callee.ret, "col"))
    /\ UNCHANGED <<config, buffer, overflowChecks, dc, rst, log>>

SawCol ==
    /\ Running("set_address_window", "col")
    /\ stack' = Push(WcFrame(ColumnAddressSet,
                              <<Hi(Top.loc.final_sy), Lo(Top.loc.final_sy),
                                Hi(Top.loc.final_ey), Lo(Top.loc.final_ey)>>))
    /\ UNCHANGED <<config, buffer, overflowChecks, dc, rst, log>>

\* write_command(ColumnAddressSet, ..).await is the function's value.
SawColReturn ==
    /\ Returned("set_address_window") /\ Caller.pc = "col"
    /\ stack' = ReturnTo(Done(Caller, Callee.ret))
    /\ UNCHANGED <<config, buffer, overflowChecks, dc, rst, log>>

\* ------------------------------------------------------------ fill_color

NoErr == "none"

\* Result of a streaming loop from its first_bus_error.
StreamResult(first_bus_error) ==
    IF first_bus_error = NoErr THEN Ok ELSE ErrBus(first_bus_error)

FillColorCall ==
    /\ Idle
    /\ \E i \in 1..Len(Colors) :
          stack' = <<[Frame("fill_color", "window", [color |-> Colors[i]], NoArgs)
                        EXCEPT !.base = 0]>>
    /\ log' = <<>>
    /\ UNCHANGED <<config, buffer, overflowChecks, dc, rst>>

\* set_address_window(0, 0, width - 1, height - 1)
FillWindow ==
    /\ Running("fill_color", "window")
    /\ LET under == Underflows(config.width, 1) \/ Underflows(config.height, 1)
       IN  stack' = IF under /\ overflowChecks
                       THEN SetTop(Panic(Top))
                       ELSE Push(SawFrame(0, 0, Sub16(config.width, 1),
                                          Sub16(config.height, 1)))
    /\ UNCHANGED <<config, buffer, overflowChecks, dc, rst, log>>

FillWindowReturn ==
    /\ Returned("fill_color") /\ Caller.pc = "window"
    /\ stack' = ReturnTo(Try(Caller, Callee.ret, "memwrite"))
    /\ UNCHANGED <<config, buffer, overflowChecks, dc, rst, log>>

FillMemoryWrite ==
    /\ Running("fill_color", "memwrite")
    /\ stack' = Push(WcFrame(MemoryWrite, <<>>))
    /\ UNCHANGED <<config, buffer, overflowChecks, dc, rst, log>>

\* FillMemoryWriteReturn going to the buffer without start_data_internal.
FillMemoryWriteReturnSkipsStartData ==
    /\ Returned("fill_color") /\ Caller.pc = "memwrite"
    /\ stack' = ReturnTo(Try(Caller, Callee.ret, "prepare"))
    /\ UNCHANGED <<config, buffer, overflowChecks, dc, rst, log>>

FillMemoryWriteReturn ==
    /\ Returned("fill_color") /\ Caller.pc = "memwrite"
    /\ stack' = ReturnTo(Try(Caller, Callee.ret, "start_data"))
    /\ UNCHANGED <<config, buffer, overflowChecks, dc, rst, log>>

\* FillStartData dropping the result of start_data_internal.
FillStartDataUnchecked ==
    /\ Running("fill_color", "start_data")
    /\ \E out \in PinOutcomes :
          /\ log' = Append(log, PinEv("dc", "high", out))
          /\ dc' = IF out = "ok" THEN "high" ELSE dc
          /\ stack' = SetTop([Top EXCEPT !.pc = "prepare"])
    /\ UNCHANGED <<config, buffer, overflowChecks, rst>>

\* start_data_internal and the check of its result
FillStartData ==
    /\ Running("fill_color", "start_data")
    /\ \E out \in PinOutcomes :
          /\ log' = Append(log, PinEv("dc", "high", out))
          /\ dc' = IF out = "ok" THEN "high" ELSE dc
          /\ stack' = SetTop(IF out = "ok" THEN [Top EXCEPT !.pc = "prepare"]
                                           ELSE Done(Top, ErrPin(out)))
    /\ UNCHANGED <<config, buffer, overflowChecks, rst>>

\* for chunk in buffer.chunks_mut(2) { chunk[0] = high; chunk[1] = low }:
\* a buffer of odd length ends in a chunk of one byte, where chunk[1] panics.
Replicate(buf, high_byte, low_byte) ==
    [i \in 1..Len(buf) |-> IF i % 2 = 1 THEN high_byte ELSE low_byte]

FillPrepare ==
    /\ Running("fill_color", "prepare")
    /\ buffer' = Replicate(buffer, Hi(Top.args.color), Lo(Top.args.color))
    /\ stack' = SetTop(IF Len(buffer) % 2 = 1
                          THEN Panic(Top)
                          ELSE [Top EXCEPT !.pc = "loop",
                                           !.loc = [total_pixels |-> config.width * config.height,
                                                    pixels_sent |-> 0,
                                                    first_bus_error |-> NoErr]])
    /\ UNCHANGED <<config, overflowChecks, dc, rst, log>>

Min(a, b) == IF a < b THEN a ELSE b

\* Bytes of the chunk the loop sends next.
FillBytesToSend(loc) == Min(loc.total_pixels - loc.pixels_sent, MAX_DATA_LEN) * 2

\* FillLoop without the break after a failed write.
FillLoopNoBreak ==
    /\ Running("fill_color", "loop")
    /\ Top.loc.pixels_sent < Top.loc.total_pixels
    /\ LET n == FillBytesToSend(Top.loc)
       IN  IF n > Len(buffer)
              THEN /\ stack' = SetTop(Panic(Top))
                   /\ log' = log
              ELSE \E out \in BusOutcomes :
                      /\ log' = Append(log, BusEv(SubSeq(buffer, 1, n), out))
                      /\ stack' = SetTop(
                            IF out = "ok"
                               THEN [Top EXCEPT !.loc.pixels_sent = @ + (n \div 2)]
                               ELSE [Top EXCEPT !.loc.pixels_sent = @ + (n \div 2),
                                                !.loc.first_bus_error = out])
    /\ UNCHANGED <<config, buffer, overflowChecks, dc, rst>>

\* One turn of the loop: &self.buffer[..bytes_to_send] panics past the buffer's end;
\* a failed write records the error and breaks.
FillLoop ==
    /\ Running("fill_color", "loop")
    /\ Top.loc.pixels_sent < Top.loc.total_pixels
    /\ LET n == FillBytesToSend(Top.loc)
       IN  IF n > Len(buffer)
              THEN /\ stack' = SetTop(Panic(Top))
                   /\ log' = log
              ELSE \E out \in BusOutcomes :
                      /\ log' = Append(log, BusEv(SubSeq(buffer, 1, n), out))
                      /\ stack' = SetTop(
                            IF out = "ok"
                               THEN [Top EXCEPT !.loc.pixels_sent = @ + (n \div 2)]
                               ELSE [Top EXCEPT !.pc = "end", !.loc.first_bus_error = out])
    /\ UNCHANGED <<config, buffer, overflowChecks, dc, rst>>

\* The loop's condition fails.
FillLoopExit ==
    /\ Running("fill_color", "loop")
    /\ Top.loc.pixels_sent >= Top.loc.total_pixels
    /\ stack' = SetTop([Top EXCEPT !.pc = "end"])
    /\ UNCHANGED <<config, buffer, overflowChecks, dc, rst, log>>

FillEnd ==
    /\ Running("fill_color", "end")
    /\ stack' = SetTop(Done(Top, StreamResult(Top.loc.first_bus_error)))
    /\ UNCHANGED <<config, buffer, overflowChecks, dc, rst, log>>

\* ------------------------------------------------------------ write_area

WriteAreaCall ==
    /\ Idle
    /\ \E a \in Areas, data \in DataSeqs :
          stack' = <<[Frame("write_area", "window",
                            [x |-> a[1], y |-> a[2], width |-> a[3], height |-> a[4],
                             data |-> data], NoArgs)
                        EXCEPT !.base = 0]>>
    /\ log' = <<>>
    /\ UNCHANGED <<config, buffer, overflowChecks, dc, rst>>

\* WaWindow with the end corner one past the area: (x + width, y + height).
WaWindowExclusiveEnd ==
    /\ Running("write_area", "window")
    /\ LET a == Top.args
           bad == Overflows(a.x, a.width) \/ Overflows(a.y, a.height)
       IN  stack' = IF bad /\ overflowChecks
                       THEN SetTop(Panic(Top))
                       ELSE Push(SawFrame(a.x, a.y, Add16(a.x, a.width),
                                          Add16(a.y, a.height)))
    /\ UNCHANGED <<config, buffer, overflowChecks, dc, rst, log>>

\* set_address_window(x, y, x + width - 1, y + height - 1)
WaWindow ==
    /\ Running("write_area", "window")
    /\ LET a == Top.args
           bad == \/ Overflows(a.x, a.width) \/ Underflows(Add16(a.x, a.width), 1)
                  \/ Overflows(a.y, a.height) \/ Underflows(Add16(a.y, a.height), 1)
       IN  stack' = IF bad /\ overflowChecks
                       THEN SetTop(Panic(Top))
                       ELSE Push(SawFrame(a.x, a.y,
                                          Sub16(Add16(a.x, a.width), 1),
                                          Sub16(Add16(a.y, a.height), 1)))
    /\ UNCHANGED <<config, buffer, overflowChecks, dc, rst, log>>

WaWindowReturn ==
    /\ Returned("write_area") /\ Caller.pc = "window"
    /\ stack' = ReturnTo(Try(Caller, Callee.ret, "memwrite"))
    /\ UNCHANGED <<config, buffer, overflowChecks, dc, rst, log>>

WaMemoryWrite ==
    /\ Running("write_area", "memwrite")
    /\ stack' = Push(WcFrame(MemoryWrite, <<>>))
    /\ UNCHANGED <<config, buffer, overflowChecks, dc, rst, log>>

WaMemoryWriteReturn ==
    /\ Returned("write_area") /\ Caller.pc = "memwrite"
    /\ stack' = ReturnTo(Try(Caller, Callee.ret, "start_data"))
    /\ UNCHANGED <<config, buffer, overflowChecks, dc, rst, log>>

WaStartData ==
    /\ Running("write_area", "start_data")
    /\ \E out \in PinOutcomes :
          /\ log' = Append(log, PinEv("dc", "high", out))
          /\ dc' = IF out = "ok" THEN "high" ELSE dc
          /\ stack' = SetTop(IF out = "ok"
                                THEN [Top EXCEPT !.pc = "outer",
                                                 !.loc = [current_pixel_index |-> 0,
                                                          buffer_idx |-> 0,
                                                          first_bus_error |-> NoErr]]
                                ELSE Done(Top, ErrPin(out)))
    /\ UNCHANGED <<config, buffer, overflowChecks, rst>>

\* The inner loop, from buffer_idx and current_pixel_index (both counted from 0):
\* it ends when the buffer is full or the data is used up, and panics on
\* buffer[buffer_idx + 1] when only one byte is left.
RECURSIVE EncodeLoop(_, _, _, _)
EncodeLoop(buf, buffer_idx, current_pixel_index, data) ==
    IF buffer_idx < Len(buf) /\ current_pixel_index < Len(data)
       THEN LET color_val == data[current_pixel_index + 1]
                b1 == [buf EXCEPT ![buffer_idx + 1] = Hi(color_val)]
            IN  IF buffer_idx + 1 >= Len(buf)
                   THEN [buf |-> b1, buffer_idx |-> buffer_idx,
                         current_pixel_index |-> current_pixel_index, panic |-> TRUE]
                   ELSE EncodeLoop([b1 EXCEPT ![buffer_idx + 2] = Lo(color_val)],
                                   buffer_idx + 2, current_pixel_index + 1, data)
       ELSE [buf |-> buf, buffer_idx |-> buffer_idx,
             current_pixel_index |-> current_pixel_index, panic |-> FALSE]

\* WaEncode flushing only a buffer that is full: the last, partly filled buffer
\* is never written.
WaEncodeFullOnly ==
    /\ Running("write_area", "outer")
    /\ Top.loc.current_pixel_index < Len(Top.args.data)
    /\ LET r == EncodeLoop(buffer, 0, Top.loc.current_pixel_index, Top.args.data)
           f == [Top EXCEPT !.loc.buffer_idx = r.buffer_idx,
                            !.loc.current_pixel_index = r.current_pixel_index]
       IN  /\ buffer' = r.buf
           /\ stack' = SetTop(IF r.panic THEN Panic(f)
                              ELSE IF r.buffer_idx = Len(buffer) THEN [f EXCEPT !.pc = "flush"]
                              ELSE f)
    /\ UNCHANGED <<config, overflowChecks, dc, rst, log>>

\* WaEncode not waiting for the flush: it may run again while the chunk it
\* encoded last is still to be written.
WaEncodeBeforeFlushReturns ==
    /\ Running("write_area", "outer") \/ Running("write_area", "flush")
    /\ Top.loc.current_pixel_index < Len(Top.args.data)
    /\ LET r == EncodeLoop(buffer, 0, Top.loc.current_pixel_index, Top.args.data)
           f == [Top EXCEPT !.loc.buffer_idx = r.buffer_idx,
                            !.loc.current_pixel_index = r.current_pixel_index]
       IN  /\ buffer' = r.buf
           /\ stack' = SetTop(IF r.panic THEN Panic(f)
                              ELSE IF r.buffer_idx > 0 THEN [f EXCEPT !.pc = "flush"]
                              ELSE f)
    /\ UNCHANGED <<config, overflowChecks, dc, rst, log>>

\* One turn of the outer loop up to its bus write.
WaEncode ==
    /\ Running("write_area", "outer")
    /\ Top.loc.current_pixel_index < Len(Top.args.data)
    /\ LET r == EncodeLoop(buffer, 0, Top.loc.current_pixel_index, Top.args.data)
           f == [Top EXCEPT !.loc.buffer_idx = r.buffer_idx,
                            !.loc.current_pixel_index = r.current_pixel_index]
       IN  /\ buffer' = r.buf
           /\ stack' = SetTop(IF r.panic THEN Panic(f)
                              ELSE IF r.buffer_idx > 0 THEN [f EXCEPT !.pc = "flush"]
                              ELSE f)
    /\ UNCHANGED <<config, overflowChecks, dc, rst, log>>

\* WaFlush returning at once from a failed write.
WaFlushBreaks ==
    /\ Running("write_area", "flush")
    /\ \E out \in BusOutcomes :
          /\ log' = Append(log, BusEv(SubSeq(buffer, 1, Top.loc.buffer_idx), out))
          /\ stack' = SetTop(IF out = "ok"
                                THEN [Top EXCEPT !.pc = "outer"]
                                ELSE Done(Top, ErrBus(out)))
    /\ UNCHANGED <<config, buffer, overflowChecks, dc, rst>>

\* if let Err(e) = bus.write(&buffer[..buffer_idx]) { first_bus_error = Some(e) }
WaFlush ==
    /\ Running("write_area", "flush")
    /\ \E out \in BusOutcomes :
          /\ log' = Append(log, BusEv(SubSeq(buffer, 1, Top.loc.buffer_idx), out))
          /\ stack' = SetTop(IF out = "ok"
                                THEN [Top EXCEPT !.pc = "outer"]
                                ELSE [Top EXCEPT !.pc = "outer",
                                                 !.loc.first_bus_error = out])
    /\ UNCHANGED <<config, buffer, overflowChecks, dc, rst>>

\* The outer loop's condition fails.
WaEnd ==
    /\ Running("write_area", "outer")
    /\ Top.loc.current_pixel_index >= Len(Top.args.data)
    /\ stack' = SetTop(Done(Top, StreamResult(Top.loc.first_bus_error)))
    /\ UNCHANGED <<config, buffer, overflowChecks, dc, rst, log>>

\* ------------------------------------------------------- the call's end

\* The public call's Result goes to the caller, who may then start the next call.
Complete ==
    /\ Len(stack) = 1 /\ Top.pc = "done"
    /\ stack' = <<>>
    /\ log' = <<>>
    /\ UNCHANGED <<config, buffer, overflowChecks, dc, rst>>

\* ------------------------------------------------------------------ next

Next ==
    \/ ResetCall \/ ResetSetLow \/ ResetDelay10 \/ ResetSetHigh \/ ResetDelay120
    \/ WcDcLow \/ WcCmdWrite \/ WcDcHigh \/ WcParamWrite
    \/ InitCall \/ InitReset \/ InitWriteCommand \/ InitDelay \/ InitReturn
    \/ SetAddressWindowCall \/ SawRow \/ SawRowReturn \/ SawCol \/ SawColReturn
    \/ FillColorCall \/ FillWindow \/ FillWindowReturn \/ FillMemoryWrite
    \/ FillMemoryWriteReturn \/ FillStartData \/ FillPrepare \/ FillLoop
    \/ FillLoopExit \/ FillEnd
    \/ WriteAreaCall \/ WaWindow \/ WaWindowReturn \/ WaMemoryWrite
    \/ WaMemoryWriteReturn \/ WaStartData \/ WaEncode \/ WaFlush \/ WaEnd
    \/ Complete

Spec == Init /\ [][Next]_vars

\* -------------------------------------------------------- reading the log

\* The public call in progress is fn; it has returned.
InOp(fn) == stack # <<>> /\ stack[1].fn = fn
OpDone(fn) == Len(stack) = 1 /\ stack[1].fn = fn /\ stack[1].pc = "done"

IsPin(e, pin, level) == e.k = "pin" /\ e.pin = pin /\ e.level = level
IsWrite(e, bytes, level) == e.k = "bus" /\ e.bytes = bytes /\ e.dc = level
IsDelay(e, ms) == e.k = "delay" /\ e.ms = ms
IsBus(e) == e.k = "bus"
IsTimer(e) == e.k = "delay"

AllOk == \A i \in 1..Len(log) : log[i].res = "ok"
Writes == SelectSeq(log, IsBus)
Delays == SelectSeq(log, IsTimer)

\* The error a failed event gives its caller.
ErrOf(e) == IF e.k = "pin" THEN ErrPin(e.res) ELSE ErrBus(e.res)

\* ---------------------------------------------------------------- claims

\* An init that met no failure, at its return: the events are reset low, 10 ms,
\* reset high, 120 ms, then the opcodes FEh, EFh, 80h..8Fh each followed by the
\* parameter FFh, further registers, 36h, B6h, 11h, a 200 ms delay and 29h.
InitOrderWhenDone ==
    (OpDone("init") /\ AllOk) =>
        LET n == Len(log)
            m == Len(Writes)
        IN  /\ n > 8 /\ m > 40
            /\ IsPin(log[1], "rst", "low") /\ IsDelay(log[2], 10)
            /\ IsPin(log[3], "rst", "high") /\ IsDelay(log[4], 120)
            /\ IsPin(log[5], "dc", "low") /\ log[6] = Writes[1]
            /\ IsWrite(Writes[1], <<\hFE>>, "low")
            /\ IsWrite(Writes[2], <<\hEF>>, "low")
            /\ \A k \in 0..15 :
                  /\ IsWrite(Writes[3 + 2 * k], <<\h80 + k>>, "low")
                  /\ IsWrite(Writes[4 + 2 * k], <<\hFF>>, "high")
            /\ IsWrite(Writes[m - 5], <<\h36>>, "low")
            /\ Writes[m - 4].dc = "high"
            /\ IsWrite(Writes[m - 3], <<\hB6>>, "low")
            /\ Writes[m - 2].dc = "high"
            /\ IsWrite(Writes[m - 1], <<\h11>>, "low")
            /\ log[n - 3] = Writes[m - 1]
            /\ IsDelay(log[n - 2], 200)
            /\ IsPin(log[n - 1], "dc", "low")
            /\ IsWrite(log[n], <<\h29>>, "low") /\ log[n] = Writes[m]
            /\ Len(Delays) = 3

\* At any moment of an init call, a Display-On on the bus has a Sleep-Out and
\* then a 200 ms delay before it in the same call.
DisplayOnAfterWake ==
    InOp("init") =>
        \A i \in 1..Len(log) :
            IsWrite(log[i], <<\h29>>, "low") =>
                \E j \in 1..Len(log), k \in 1..Len(log) :
                    /\ j < k /\ k < i
                    /\ IsWrite(log[j], <<\h11>>, "low") /\ log[j].res = "ok"
                    /\ IsDelay(log[k], 200)

\* C1: an init in which no pin-set and no bus write fails drives the reset
\* line low, waits 10 ms, drives it high, waits 120 ms, then writes opcode FEh,
\* opcode EFh, the sixteen opcodes 80h..8Fh in ascending order each with the one
\* parameter FFh, the remaining registers, Memory-Access-Control (36h),
\* Display-Function-Control (B6h) and Sleep-Out (11h), waits 200 ms and writes
\* Display-On (29h) as its last event; and no init call writes Display-On
\* without Sleep-Out and the 200 ms delay before it.
InitOrder == InitOrderWhenDone /\ DisplayOnAfterWake

\* An init that ran to its end with no failure.
InitCompleted == OpDone("init") /\ AllOk /\ stack[1].ret = Ok /\ Len(log) > 100

\* C2: in an init call a failed pin-set or bus write is the call's last event
\* (nothing is done after it, nothing is retried); from then on the function on
\* top of the stack is returning that event's error, and init returns it: Pin
\* for a pin-set, Bus for a bus write.
InitAbortsAtFirstFailure ==
    InOp("init") =>
        /\ \A i \in 1..Len(log) : log[i].res # "ok" => i = Len(log)
        /\ ~AllOk => Top.pc = "done" /\ Top.ret = ErrOf(log[Len(log)])
        /\ OpDone("init") =>
              stack[1].ret = IF AllOk THEN Ok ELSE ErrOf(log[Len(log)])

\* An init that returned a bus error from the middle of the register program.
InitFailedMidway ==
    /\ OpDone("init") /\ stack[1].ret.tag = "Bus"
    /\ Len(log) > 40
    /\ \A i \in 1..Len(log) : ~IsDelay(log[i], 200)

\* The events of the write_command call on top of the stack.
WcEvents == SubSeq(log, Top.base + 1, Len(log))
WcAt(pc) == stack # <<>> /\ Top.fn = "write_command" /\ Top.pc = pc

\* C3: a returned write_command did its sub-steps in order up to the first
\* failure and no further: a failed select-low is its only event and gives Pin;
\* a failed opcode write is its second and last event and gives Bus, whatever
\* params holds; a failed select-high is its third and last event and gives Pin;
\* a failed parameter write gives Bus; Ok is returned only if no event failed.
WriteCommandFailurePolicy ==
    WcAt("done") =>
        LET ev == WcEvents
            n == Len(ev)
            a == Top.args
        IN  /\ n >= 1 /\ IsPin(ev[1], "dc", "low")
            /\ \A i \in 1..n : ev[i].res # "ok" => i = n /\ Top.ret = ErrOf(ev[i])
            /\ ev[1].res # "ok" => n = 1 /\ Top.ret.tag = "Pin"
            /\ n >= 2 => IsBus(ev[2]) /\ ev[2].bytes = <<a.instruction>>
            /\ (n >= 2 /\ ev[2].res # "ok") => n = 2 /\ Top.ret.tag = "Bus"
            /\ n >= 3 => IsPin(ev[3], "dc", "high") /\ a.params # <<>>
            /\ (n >= 3 /\ ev[3].res # "ok") => n = 3 /\ Top.ret.tag = "Pin"
            /\ n >= 4 => IsBus(ev[4]) /\ ev[4].bytes = a.params
            /\ (n >= 4 /\ ev[4].res # "ok") => Top.ret.tag = "Bus"
            /\ n <= 4
            /\ Top.ret = Ok <=>
                  /\ \A i \in 1..n : ev[i].res = "ok"
                  /\ n = IF a.params = <<>> THEN 2 ELSE 4

\* A write_command with parameters that returned Bus from its opcode write.
WcOpcodeWriteFailed ==
    /\ WcAt("done") /\ Top.args.params # <<>>
    /\ Len(WcEvents) = 2 /\ Top.ret.tag = "Bus"

\* C4: a write_command without parameters does one bus write, the opcode byte
\* with the select line low, and never sets the select line high; one with
\* parameters that meets no failure does two bus writes, the opcode with the
\* select line low and all of params in one write with the select line high.
WriteCommandPhases ==
    /\ (stack # <<>> /\ Top.fn = "write_command" /\ Top.args.params = <<>>) =>
          /\ \A i \in 1..Len(WcEvents) : ~IsPin(WcEvents[i], "dc", "high")
          /\ Len(SelectSeq(WcEvents, IsBus)) <= 1
    /\ (WcAt("done") /\ \A i \in 1..Len(WcEvents) : WcEvents[i].res = "ok") =>
          LET ev == WcEvents
              a == Top.args
          IN  IF a.params = <<>>
                 THEN /\ Len(ev) = 2
                      /\ IsPin(ev[1], "dc", "low")
                      /\ IsWrite(ev[2], <<a.instruction>>, "low")
                 ELSE /\ Len(ev) = 4
                      /\ IsPin(ev[1], "dc", "low")
                      /\ IsWrite(ev[2], <<a.instruction>>, "low")
                      /\ IsPin(ev[3], "dc", "high")
                      /\ IsWrite(ev[4], a.params, "high")

\* A write_command without parameters that returned Ok.
WcNoParamsDone ==
    /\ WcAt("done") /\ Top.args.params = <<>> /\ Top.ret = Ok
    /\ Len(WcEvents) = 2

\* ------------------------------------------------------- the data phase

\* The data phase of fill_color and write_area opens with the select line set
\* high right after the Memory-Write opcode; every event after that is a chunk.
DataOpenAt ==
    {i \in 2..Len(log) : /\ IsWrite(log[i - 1], <<\h2C>>, "low")
                         /\ IsPin(log[i], "dc", "high") /\ log[i].res = "ok"}
DataReached == DataOpenAt # {}
DataEvents ==
    IF DataReached THEN SubSeq(log, (CHOOSE i \in DataOpenAt : TRUE) + 1, Len(log))
                   ELSE <<>>
DataFailures == {k \in 1..Len(DataEvents) : DataEvents[k].res # "ok"}

RECURSIVE TotalBytes(_)
TotalBytes(evs) == IF evs = <<>> THEN 0 ELSE Len(Head(evs).bytes) + TotalBytes(Tail(evs))

\* The pixels as they go on the wire, two bytes each, high byte first.
WireBytes(data) ==
    [i \in 1..(2 * Len(data)) |->
        IF i % 2 = 1 THEN data[(i + 1) \div 2] \div 256 ELSE data[i \div 2] % 256]

\* The k-th of the chunks of at most cap bytes that bytes falls into.
ChunkOf(bytes, cap, k) == SubSeq(bytes, (k - 1) * cap + 1, Min(k * cap, Len(bytes)))
CeilDiv(a, b) == (a + b - 1) \div b

\* C5: a write_area that met failing data chunks returns Error::Bus with the
\* error of the earliest failing chunk.
WriteAreaReturnsFirstError ==
    (OpDone("write_area") /\ DataFailures # {}) =>
        LET first == CHOOSE k \in DataFailures : \A j \in DataFailures : k <= j
        IN  stack[1].ret = ErrBus(DataEvents[first].res)

\* C6: a write_area that reached its data phase has, when it returns, put on
\* the bus every chunk of the encoded data, as many and with the same bytes as
\* when no write fails, whether or not some of them failed.
WriteAreaStreamsEveryChunk ==
    (OpDone("write_area") /\ DataReached) =>
        LET data == stack[1].args.data
            cap == Len(buffer)
        IN  /\ Len(DataEvents) = CeilDiv(2 * Len(data), cap)
            /\ \A k \in 1..Len(DataEvents) :
                  /\ IsBus(DataEvents[k])
                  /\ DataEvents[k].bytes = ChunkOf(WireBytes(data), cap, k)
            /\ DataFailures # {} => stack[1].ret.tag = "Bus"

\* A write_area whose first chunk failed and which went on to a later chunk.
WriteAreaWentOnAfterFailure ==
    /\ OpDone("write_area") /\ Len(DataEvents) >= 2
    /\ DataEvents[1].res # "ok"
    /\ stack[1].ret.tag = "Bus"

\* C7: in fill_color a failed data chunk is the last bus write of the call: the
\* loop is left at once, no further chunk is attempted, and the call returns
\* Error::Bus with that chunk's error.
FillStopsAtFirstBusError ==
    InOp("fill_color") =>
        /\ \A k \in DataFailures : k = Len(DataEvents)
        /\ DataFailures # {} => Top.pc \in {"end", "done"}
        /\ (OpDone("fill_color") /\ DataFailures # {}) =>
              stack[1].ret = ErrBus(DataEvents[Len(DataEvents)].res)

\* A fill_color that returned the failure of its second chunk.
FillSecondChunkFailed ==
    /\ OpDone("fill_color") /\ Len(DataEvents) = 2
    /\ DataEvents[1].res = "ok" /\ DataEvents[2].res # "ok"
    /\ stack[1].ret.tag = "Bus"

\* C8: with an even buffer of 0 < cap <= BUF_SIZE bytes and width * height * 2
\* no multiple of cap, a fill_color that meets no failure does not panic, sends
\* no chunk longer than the buffer, and ends with chunks of cap bytes followed
\* by one of (width * height * 2) mod cap bytes.
FillTailIsRemainder ==
    LET cap == Len(buffer)
        bytes == config.width * config.height * 2
    IN  ( /\ InOp("fill_color") /\ AllOk /\ DataReached
          /\ cap % 2 = 0 /\ 0 < cap /\ cap <= BUF_SIZE
          /\ config.width > 0 /\ config.height > 0
          /\ bytes % cap # 0 ) =>
            /\ Top.pc # "panic"
            /\ \A k \in 1..Len(DataEvents) : Len(DataEvents[k].bytes) <= cap
            /\ OpDone("fill_color") =>
                  /\ Len(DataEvents) >= 1
                  /\ \A k \in 1..(Len(DataEvents) - 1) : Len(DataEvents[k].bytes) = cap
                  /\ Len(DataEvents[Len(DataEvents)].bytes) = bytes % cap

\* C9: a fill_color that meets no failure ends its data phase having done
\* ceil(width * height / (cap / 2)) bus writes, the k-th of
\* min(pixels left, cap / 2) * 2 bytes, width * height * 2 bytes in all.
FillChunkCount ==
    LET max_pixels == Len(buffer) \div 2
        total == config.width * config.height
    IN  ( /\ InOp("fill_color") /\ AllOk /\ DataReached
          /\ max_pixels > 0
          /\ Top.pc \in {"done", "panic"} ) =>
            /\ Len(DataEvents) = CeilDiv(total, max_pixels)
            /\ \A k \in 1..Len(DataEvents) :
                  Len(DataEvents[k].bytes) = Min(total - (k - 1) * max_pixels, max_pixels) * 2
            /\ TotalBytes(DataEvents) = total * 2

\* C10: write_area does not panic whatever x, y, width and height are, and
\* when none of its pin-sets and none of the writes before the data phase fail
\* it returns having consumed data.len() pixels and sent data.len() * 2 bytes.
WriteAreaConsumesAllData ==
    InOp("write_area") =>
        /\ Top.pc # "panic"
        /\ (OpDone("write_area") /\ DataReached) =>
              /\ stack[1].loc.current_pixel_index = Len(stack[1].args.data)
              /\ TotalBytes(DataEvents) = 2 * Len(stack[1].args.data)

\* ------------------------------------------------------ the address window

\* A 16-bit value as two bytes, most significant first.
BE16(v) == <<(v \div 256) % 256, v % 256>>

\* The set_address_window calls in progress, the events each has produced and
\* the two parameter vectors its arguments call for.
SawIn == {p \in 1..Len(stack) : stack[p].fn = "set_address_window"}
SawEvents(p) == SubSeq(log, stack[p].base + 1, Len(log))
RowParams(a) == BE16((a.sx + config.dx) % U16) \o BE16((a.ex + config.dx) % U16)
ColParams(a) == BE16((a.sy + config.dy) % U16) \o BE16((a.ey + config.dy) % U16)

\* C11: the bus writes of set_address_window(sx, sy, ex, ey) are, in order,
\* 2Bh, the big-endian bytes of sx + dx and ex + dx, 2Ah, the big-endian bytes
\* of sy + dy and ey + dy; 2Ah is written only when everything before it
\* succeeded, and a call that met a failure returns that failure and did
\* nothing after it.
SetAddressWindowWrites ==
    \A p \in SawIn :
        LET a == stack[p].args
            ev == SawEvents(p)
            bus == SelectSeq(ev, IsBus)
            failed == {i \in 1..Len(ev) : ev[i].res # "ok"}
        IN  /\ Len(bus) <= 4
            /\ Len(bus) >= 1 => bus[1].bytes = <<\h2B>>
            /\ Len(bus) >= 2 => bus[2].bytes = RowParams(a)
            /\ Len(bus) >= 3 => bus[3].bytes = <<\h2A>>
            /\ Len(bus) >= 4 => bus[4].bytes = ColParams(a)
            /\ failed \subseteq {Len(ev)}
            /\ stack[p].pc = "done" =>
                  IF failed = {} THEN Len(bus) = 4 /\ stack[p].ret = Ok
                                 ELSE stack[p].ret = ErrOf(ev[Len(ev)])

\* Witness of C11: a call on a display with both offsets set ran to the end.
SetAddressWindowForwarded ==
    /\ OpDone("set_address_window") /\ stack[1].ret = Ok
    /\ config.dx > 0 /\ config.dy > 0 /\ config.dx # config.dy
    /\ Len(Writes) = 4

\* C12: set_address_window validates nothing: whatever the coordinates and the
\* offsets, beyond width and height or with a sum above 65535, the call comes
\* to an end, it fails only when one of its pin-sets or bus writes failed, and
\* when none failed both register commands went to the bus.
SetAddressWindowAcceptsAll ==
    \A p \in SawIn :
        LET ev == SawEvents(p)
            failed == {i \in 1..Len(ev) : ev[i].res # "ok"}
        IN  /\ stack[p].pc # "panic"
            /\ stack[p].pc = "done" /\ stack[p].ret # Ok => failed # {}
            /\ stack[p].pc = "done" /\ failed = {} =>
                  /\ \E i \in 1..Len(ev) : IsWrite(ev[i], <<\h2B>>, "low")
                  /\ \E i \in 1..Len(ev) : IsWrite(ev[i], <<\h2A>>, "low")

\* ------------------------------------------------------ pixels on the wire

\* The bytes of a run of bus writes, end to end.
RECURSIVE Concat(_)
Concat(evs) == IF evs = <<>> THEN <<>> ELSE Head(evs).bytes \o Concat(Tail(evs))

IsPrefix(s, t) == Len(s) <= Len(t) /\ s = SubSeq(t, 1, Len(s))

\* C13: a pixel travels as two bytes, the high one first. What write_area has
\* put on the wire in its data phase is at every moment the beginning of the
\* big-endian encodings of data[0], data[1], .., and all of them when the call
\* ends without a failure; every chunk of fill_color(color) is made of the
\* pairs [color >> 8, color & FFh].
PixelsBigEndian ==
    /\ InOp("write_area") =>
          /\ IsPrefix(Concat(DataEvents), WireBytes(stack[1].args.data))
          /\ OpDone("write_area") /\ AllOk /\ stack[1].ret = Ok =>
                Concat(DataEvents) = WireBytes(stack[1].args.data)
    /\ InOp("fill_color") =>
          \A k \in 1..Len(DataEvents) :
              LET b == DataEvents[k].bytes
                  color == stack[1].args.color
              IN  /\ Len(b) % 2 = 0
                  /\ \A i \in 1..Len(b) :
                        b[i] = IF i % 2 = 1 THEN color \div 256 ELSE color % 256

\* Witness of C13: three pixels of two colours went out in more than one chunk.
PixelsCrossedChunks ==
    /\ OpDone("write_area") /\ AllOk /\ stack[1].ret = Ok
    /\ Len(stack[1].args.data) = MaxData
    /\ Len(DataEvents) >= 2
    /\ Concat(DataEvents)[1] = \hF8 /\ Concat(DataEvents)[3] = \h12

\* ------------------------------------------------- what precedes the pixels

\* An event without its outcome and without the select level it found.
What(e) == [k |-> e.k, pin |-> e.pin, level |-> e.level, bytes |-> e.bytes]
Select(level) == [k |-> "pin", pin |-> "dc", level |-> level, bytes |-> <<>>]
Sends(bytes) == [k |-> "bus", pin |-> "-", level |-> "-", bytes |-> bytes]

\* Row-Address-Set, Column-Address-Set and a Memory-Write without parameters
\* for the window (sx, sy)-(ex, ey), then the select line set high.
Opening(sx, sy, ex, ey) ==
    << Select("low"), Sends(<<\h2B>>), Select("high"), Sends(BE16(sx) \o BE16(ex)),
       Select("low"), Sends(<<\h2A>>), Select("high"), Sends(BE16(sy) \o BE16(ey)),
       Select("low"), Sends(<<\h2C>>), Select("high") >>

FillOpening ==
    Opening(config.dx % U16, config.dy % U16,
            (config.width - 1 + config.dx) % U16, (config.height - 1 + config.dy) % U16)
WaOpening(a) ==
    Opening((a.x + config.dx) % U16, (a.y + config.dy) % U16,
            (a.x + a.width - 1 + config.dx) % U16, (a.y + a.height - 1 + config.dy) % U16)

\* The call's events begin as open says, and whatever comes after open is a bus
\* write that found every event of open successful.
StreamsAfter(open) ==
    /\ \A i \in 1..Len(log) : i <= Len(open) => What(log[i]) = open[i]
    /\ \A i \in 1..Len(log) :
          i > Len(open) => /\ log[i].k = "bus"
                           /\ \A j \in 1..Len(open) : log[j].res = "ok"

\* C14: fill_color and write_area write pixel data only after, in this order, a
\* successful Row-Address-Set, a successful Column-Address-Set, a successful
\* Memory-Write without parameters and a successful select-high; the window is
\* (0, 0)-(width - 1, height - 1) for fill_color and
\* (x, y)-(x + width - 1, y + height - 1) for write_area, both moved by (dx, dy).
DataAfterOpening ==
    /\ InOp("fill_color") => StreamsAfter(FillOpening)
    /\ InOp("write_area") => StreamsAfter(WaOpening(stack[1].args))
    /\ InOp("fill_color") \/ InOp("write_area") =>
          \A k \in 1..Len(DataEvents) : DataEvents[k] = log[Len(FillOpening) + k]

\* Witness of C14: write_area sent pixels to a window moved by both offsets.
WriteAreaStreamedIntoWindow ==
    /\ OpDone("write_area") /\ Len(log) > Len(FillOpening)
    /\ stack[1].args.width > 1
    /\ config.dx > 0 /\ config.dy > 0

\* ------------------------------------------------------------ pin failures

\* C15: in init, reset, set_address_window, fill_color and write_area a failed
\* pin-set is the last thing the call does: no bus write, pin-set or delay
\* comes after it, every function it was made in returns Error::Pin of that
\* failure, and so does the call. In fill_color and write_area a failure of
\* anything up to and including the data phase's select-high leaves the call
\* without a single pixel byte written.
PinFailureAborts ==
    /\ \A i \in 1..Len(log) :
          log[i].k = "pin" /\ log[i].res # "ok" =>
              /\ i = Len(log)
              /\ Top.pc = "done" /\ Top.ret = ErrPin(log[i].res)
    /\ InOp("fill_color") \/ InOp("write_area") =>
          \A i \in 1..Len(log) :
              i <= Len(FillOpening) /\ log[i].res # "ok" =>
                  /\ i = Len(log)
                  /\ DataEvents = <<>>
                  /\ Top.pc = "done" /\ Top.ret = ErrOf(log[i])

\* Witness of C15: fill_color returned Error::Pin from the select-high that
\* opens the data phase.
FillSelectHighFailed ==
    /\ OpDone("fill_color") /\ stack[1].ret.tag = "Pin"
    /\ Len(log) = Len(FillOpening)
    /\ IsWrite(log[Len(log) - 1], <<\h2C>>, "low") /\ log[Len(log) - 1].res = "ok"

\* ---------------------------------------------------------- the orientation

\* The four orientations' bytes, as the enum declares them.
OrientationConstants ==
    [Portrait |-> \h00, Landscape |-> \h60, PortraitSwapped |-> \h80,
     LandscapeSwapped |-> \hA0]

\* Where the Memory-Access-Control opcode went to the bus.
MadctlAt == {i \in 1..Len(log) : IsWrite(log[i], <<\h36>>, "low")}

\* C16: whichever of the four orientations is configured, init issues
\* Memory-Access-Control (36h) exactly once, with exactly one parameter byte,
\* the orientation's constant: never twice, and once in every init that met
\* no failure, followed by select-high, that one byte, and the next command.
MadctlOnce ==
    InOp("init") =>
        /\ Cardinality(MadctlAt) <= 1
        /\ \A i \in MadctlAt :
              /\ Len(log) >= i + 2 =>
                    /\ IsPin(log[i + 1], "dc", "high")
                    /\ IsWrite(log[i + 2],
                               <<OrientationConstants[config.orientation]>>, "high")
              /\ Len(log) >= i + 3 => IsPin(log[i + 3], "dc", "low")
        /\ OpDone("init") /\ AllOk =>
              \E i \in MadctlAt : Len(log) >= i + 3

\* Witness of C16: an init configured LandscapeSwapped has sent its byte.
MadctlSentSwapped ==
    /\ OpDone("init") /\ AllOk /\ config.orientation = "LandscapeSwapped"
    /\ \E i \in MadctlAt : IsWrite(log[i + 2], <<\hA0>>, "high")

\* ------------------------------------------------------ write_area's flushes

\* C17: write_area writes the buffer out whenever it has filled it and once
\* more for what is left: with a buffer of C bytes every data-phase write but
\* the last is of C bytes, a call that came to its end made
\* ceil(2 * data.len() / C) of them, the last one of the bytes that remained,
\* and with empty data it made none and returned Ok.
WriteAreaFlushes ==
    InOp("write_area") /\ DataReached =>
        LET n == 2 * Len(stack[1].args.data)
            C == Len(buffer)
            writes == Len(DataEvents)
            size(k) == Len(DataEvents[k].bytes)
        IN  /\ \A k \in 1..writes : k < writes => size(k) = C
            /\ \A k \in 1..writes : size(k) > 0 /\ size(k) <= C
            /\ writes * C < n + C
            /\ OpDone("write_area") =>
                  /\ writes = (n + C - 1) \div C
                  /\ writes > 0 => size(writes) = n - C * (writes - 1)
                  /\ n = 0 => writes = 0 /\ stack[1].ret = Ok

\* Witness of C17: a call ended whose last write was of a partly filled buffer.
WriteAreaPartialLastChunk ==
    /\ OpDone("write_area") /\ DataReached
    /\ Len(DataEvents) >= 2
    /\ Len(DataEvents[Len(DataEvents)].bytes) < Len(buffer)

\* ------------------------------------------------------- select-line framing

\* The step puts a bus write in the log.
WritesToBus == Len(log') = Len(log) + 1 /\ log'[Len(log')].k = "bus"

\* The four places a bus write is made from.
AtOpcodeWrite == Running("write_command", "cmd")
AtParamWrite == Running("write_command", "param")
AtChunkWrite == Running("fill_color", "loop") \/ Running("write_area", "flush")

\* C18: over any sequence of driver calls and any failures, an opcode byte
\* goes to the bus only while the select line was last set low, a parameter
\* vector or a pixel chunk only while it was last set high, and nothing goes
\* to the bus while the line has never been set.
SelectFraming ==
    [][ WritesToBus =>
          /\ dc # "unset"
          /\ log'[Len(log')].dc = dc
          /\ AtOpcodeWrite \/ AtParamWrite \/ AtChunkWrite
          /\ AtOpcodeWrite => dc = "low" /\ log'[Len(log')].bytes = <<Top.args.instruction>>
          /\ AtParamWrite => dc = "high" /\ log'[Len(log')].bytes = Top.args.params
          /\ AtChunkWrite => dc = "high" ]_vars

\* Witness of C18: in a call that was not the driver's first, a pixel chunk
\* went out framed high right after a chunk whose write had failed.
ChunkFramedAfterFailure ==
    /\ InOp("write_area") /\ Len(DataEvents) >= 2
    /\ DataEvents[1].res # "ok" /\ DataEvents[2].dc = "high"
    /\ log[1].dc # "unset"

\* ------------------------------------------------------ the buffer's bounds

\* C19: with an even buffer of 0 < capacity <= BUF_SIZE bytes and width,
\* height > 0, no step of fill_color or write_area reaches into the buffer at
\* or beyond its capacity: the slice fill_color is about to take and the one
\* write_area is about to flush end within the buffer, write_area's encoding
\* stays within it, nothing stops on an index out of range, and no bus write
\* was given more bytes than the buffer holds.
BufferAccessInRange ==
    LET cap == Len(buffer)
    IN  ( /\ InOp("fill_color") \/ InOp("write_area")
          /\ cap % 2 = 0 /\ 0 < cap /\ cap <= BUF_SIZE
          /\ config.width > 0 /\ config.height > 0 ) =>
            /\ \A k \in 1..Len(DataEvents) : Len(DataEvents[k].bytes) <= cap
            /\ ( /\ Running("fill_color", "loop")
                 /\ Top.loc.pixels_sent < Top.loc.total_pixels ) =>
                   FillBytesToSend(Top.loc) <= cap
            /\ Running("write_area", "flush") => Top.loc.buffer_idx <= cap
            /\ ( /\ Running("write_area", "outer")
                 /\ Top.loc.current_pixel_index < Len(Top.args.data) ) =>
                   ~EncodeLoop(buffer, 0, Top.loc.current_pixel_index, Top.args.data).panic
            /\ DataReached => Top.pc # "panic"

\* ------------------------------------------------------- suspension points

\* Every bus write and every delay is awaited where it is made, so a step of
\* the model holds a suspension from its start to its return.

\* C20: a call has at most one bus write or delay under way at a time, and the
\* buffer changes only between suspensions: a step makes at most one bus write
\* or delay, a step that changes the buffer makes none, fill_color changes the
\* buffer only before its first data-phase write, and write_area encodes a
\* chunk only when every pixel it encoded before has had its bus write return.
OneSuspensionAtATime ==
    [][ /\ Len(log') <= Len(log) + 1
        /\ buffer' # buffer =>
              /\ log' = log
              /\ Running("fill_color", "prepare") \/ Running("write_area", "outer")
              /\ Running("fill_color", "prepare") => DataEvents = <<>>
              /\ Running("write_area", "outer") =>
                    TotalBytes(DataEvents) = 2 * Top.loc.current_pixel_index
        /\ InOp("fill_color") /\ DataEvents # <<>> => buffer' = buffer ]_vars

\* Witness of C20: write_area has encoded its second chunk, other bytes than
\* the first, after the first chunk's write returned.
SecondChunkEncoded ==
    /\ Running("write_area", "flush") /\ Len(DataEvents) = 1
    /\ SubSeq(buffer, 1, Top.loc.buffer_idx) # DataEvents[1].bytes

====
